---- MODULE Spec2Model ----
(***************************************************************************)
(* The freemium usage-gating store of the exam-prep application            *)
(* (lib/store: useUserStore and its selector hooks).                       *)
(*                                                                         *)
(* The store is one record (isAuthenticated, email, userId, tier,          *)
(* quizCount, flashcardCount, lastResetDate) mutated by eight actions.     *)
(* Every action that needs the date reads the wall clock through           *)
(* getTodayString(); the clock is a variable of the model that the         *)
(* environment may change between two actions.                             *)
(***************************************************************************)
EXTENDS Integers, Sequences, FiniteSets, TLC

----------------------------------------------------------------------------
(* Bounds of the model *)

\* calendar days the wall clock ranges over (1..NumDays)
NumDays == 2
\* the counters are unbounded numbers in the code; the model stops counting here
MaxCount == 11

Days == 1..NumDays

----------------------------------------------------------------------------
(* Values *)

\* `null` of a string field (email, userId, a localStorage key that is not set)
NULL == "null"
\* `null` of lastResetDate; calendar days are 1..NumDays
NoDate == 0

Emails == {"a@fd.org", "b@fd.org"}
UserIds == {"u1"}
Tokens == {"t1"}

UserTier == {"lead", "free", "premium"}

TIER_LIMITS ==
    [lead    |-> [totalQuestions |-> 10, totalFlashcards |-> 10],
     free    |-> [questionsPerDay |-> 10, flashcardsPerDay |-> 10],
     premium |-> [unlimited |-> TRUE]]

\* backwards compatibility export of the free limits
FREE_TIER_LIMITS ==
    [quizzesPerDay           |-> TIER_LIMITS.free.questionsPerDay,
     flashcardSessionsPerDay |-> TIER_LIMITS.free.flashcardsPerDay]

\* Infinity, and a finite number, as returned by the remaining-count selectors
Infinity == [unlimited |-> TRUE, n |-> 0]
Finite(k) == [unlimited |-> FALSE, n |-> k]

MathMax(a, b) == IF a >= b THEN a ELSE b

----------------------------------------------------------------------------
(* State *)

VARIABLES
    store,          \* the zustand state record (what get() returns)
    localStorage,   \* the keys auth_token, user_email, user_id
    clock,          \* the calendar day (UTC) the wall clock currently shows
    last,           \* history: the action that produced this state, with its inputs
    pre,            \* history: the store record before that action
    calls,          \* history: increment calls made on the freshly created record
    uses,           \* history: increment calls made on uses.day since the last zeroing
    phase,          \* QuizContainer: "subject-select", "count-select" or "quiz"
    served          \* history: quiz questions served to the free record on served.day

vars == <<store, localStorage, clock, last, pre, calls, uses, phase, served>>

\* new Date().toISOString().split('T')[0]
getTodayString == clock

InitialState ==
    [isAuthenticated |-> FALSE,
     email           |-> NULL,
     userId          |-> NULL,
     tier            |-> "lead",
     quizCount       |-> 0,
     flashcardCount  |-> 0,
     lastResetDate   |-> NoDate]

NoCalls == [fresh |-> FALSE, quiz |-> 0, flash |-> 0, days |-> {}]

\* the counters have just been zeroed on the given day
UsesZeroed(day) == [day |-> day, quiz |-> 0, flash |-> 0]

\* the history of uses is kept for a free record only (s is the record an
\* action has written, h the history after that action)
UsesOf(s, h) == IF s.tier = "free" THEN h ELSE UsesZeroed(NoDate)

\* one more quiz use by record s on the day `today`: the first use of a new
\* day by a free record zeroes the counters and is the only use since then;
\* another use is counted when it is made on the day the history is kept for
UsesAfterQuiz(h, s, today) ==
    IF s.tier = "free" /\ s.lastResetDate # today
    THEN [day |-> today, quiz |-> 1, flash |-> 0]
    ELSE IF today = h.day THEN [h EXCEPT !.quiz = h.quiz + 1]
    ELSE h

UsesAfterFlashcard(h, s, today) ==
    IF s.tier = "free" /\ s.lastResetDate # today
    THEN [day |-> today, quiz |-> 0, flash |-> 1]
    ELSE IF today = h.day THEN [h EXCEPT !.flash = h.flash + 1]
    ELSE h

\* the numbers of questions a quiz can be started with
QUESTION_COUNTS == {5, 10, 15, 25, 50}

MathMin(a, b) == IF a <= b THEN a ELSE b

\* the questions served are counted up to one more than the daily limit
ServedCap == TIER_LIMITS.free.questionsPerDay + 1

NoneServed == [day |-> NoDate, n |-> 0]

\* the history of served questions is kept for a free record only
ServedOf(s, h) == IF s.tier = "free" THEN h ELSE NoneServed

\* a quiz of n questions has been started on the day `today`
ServedAfter(h, today, n) ==
    IF h.day = today
    THEN [h EXCEPT !.n = MathMin(h.n + n, ServedCap)]
    ELSE [day |-> today, n |-> MathMin(n, ServedCap)]

Op(name, e, u, t) ==
    [op |-> name, email |-> e, userId |-> u, token |-> t, today |-> getTodayString]

Init ==
    /\ store = InitialState
    /\ localStorage = [auth_token |-> NULL, user_email |-> NULL, user_id |-> NULL]
    /\ clock \in Days
    /\ last = [op |-> "init", email |-> NULL, userId |-> NULL, token |-> NULL,
               today |-> clock]
    /\ pre = InitialState
    /\ calls = [fresh |-> TRUE, quiz |-> 0, flash |-> 0, days |-> {}]
    /\ uses = UsesZeroed(NoDate)
    /\ phase = "subject-select"
    /\ served = NoneServed

----------------------------------------------------------------------------
(* Selector hooks: functions of the store record and of the date *)

\* variant: the premium branch is missing, a premium record is gated like a free one
CanStartQuiz_NoPremium(s, today) ==
    IF s.tier = "lead" THEN s.quizCount < TIER_LIMITS.lead.totalQuestions
    ELSE IF s.lastResetDate # today THEN TRUE
    ELSE s.quizCount < TIER_LIMITS.free.questionsPerDay

\* variant: the quiz limit is compared with <= instead of <
CanStartQuiz_OffByOne(s, today) ==
    IF s.tier = "premium" THEN TRUE
    ELSE IF s.tier = "lead" THEN s.quizCount <= TIER_LIMITS.lead.totalQuestions
    ELSE IF s.lastResetDate # today THEN TRUE
    ELSE s.quizCount <= TIER_LIMITS.free.questionsPerDay

CanStartQuiz(s, today) ==
    IF s.tier = "premium" THEN TRUE
    ELSE IF s.tier = "lead" THEN s.quizCount < TIER_LIMITS.lead.totalQuestions
    ELSE IF s.lastResetDate # today THEN TRUE
    ELSE s.quizCount < TIER_LIMITS.free.questionsPerDay

\* variant: the limit is compared with <= instead of <
CanStartFlashcards_OffByOne(s, today) ==
    IF s.tier = "premium" THEN TRUE
    ELSE IF s.tier = "lead" THEN s.flashcardCount <= TIER_LIMITS.lead.totalFlashcards
    ELSE IF s.lastResetDate # today THEN TRUE
    ELSE s.flashcardCount <= TIER_LIMITS.free.flashcardsPerDay

CanStartFlashcards(s, today) ==
    IF s.tier = "premium" THEN TRUE
    ELSE IF s.tier = "lead" THEN s.flashcardCount < TIER_LIMITS.lead.totalFlashcards
    ELSE IF s.lastResetDate # today THEN TRUE
    ELSE s.flashcardCount < TIER_LIMITS.free.flashcardsPerDay

\* variant: the difference is returned without Math.max(0, ...)
RemainingQuizzes_NoClamp(s, today) ==
    IF s.tier = "premium" THEN Infinity
    ELSE IF s.tier = "lead"
        THEN Finite(TIER_LIMITS.lead.totalQuestions - s.quizCount)
    ELSE IF s.lastResetDate # today THEN Finite(TIER_LIMITS.free.questionsPerDay)
    ELSE Finite(TIER_LIMITS.free.questionsPerDay - s.quizCount)

\* variant: a stale free record is not recognised, the stored count is used
RemainingQuizzes_NoStale(s, today) ==
    IF s.tier = "premium" THEN Infinity
    ELSE IF s.tier = "lead"
        THEN Finite(MathMax(0, TIER_LIMITS.lead.totalQuestions - s.quizCount))
    ELSE Finite(MathMax(0, TIER_LIMITS.free.questionsPerDay - s.quizCount))

RemainingQuizzes(s, today) ==
    IF s.tier = "premium" THEN Infinity
    ELSE IF s.tier = "lead"
        THEN Finite(MathMax(0, TIER_LIMITS.lead.totalQuestions - s.quizCount))
    ELSE IF s.lastResetDate # today THEN Finite(TIER_LIMITS.free.questionsPerDay)
    ELSE Finite(MathMax(0, TIER_LIMITS.free.questionsPerDay - s.quizCount))

\* variant: a stale free record is not recognised, the stored count is used
RemainingFlashcards_NoStale(s, today) ==
    IF s.tier = "premium" THEN Infinity
    ELSE IF s.tier = "lead"
        THEN Finite(MathMax(0, TIER_LIMITS.lead.totalFlashcards - s.flashcardCount))
    ELSE Finite(MathMax(0, TIER_LIMITS.free.flashcardsPerDay - s.flashcardCount))

RemainingFlashcards(s, today) ==
    IF s.tier = "premium" THEN Infinity
    ELSE IF s.tier = "lead"
        THEN Finite(MathMax(0, TIER_LIMITS.lead.totalFlashcards - s.flashcardCount))
    ELSE IF s.lastResetDate # today THEN Finite(TIER_LIMITS.free.flashcardsPerDay)
    ELSE Finite(MathMax(0, TIER_LIMITS.free.flashcardsPerDay - s.flashcardCount))

\* variant: the limit is compared with > instead of >=
NeedsSignup_StrictGreater(s) ==
    IF s.tier # "lead" THEN FALSE
    ELSE \/ s.quizCount > TIER_LIMITS.lead.totalQuestions
         \/ s.flashcardCount > TIER_LIMITS.lead.totalFlashcards

\* variant: a signup is asked for only when both counters are at the limit
NeedsSignup_BothCounters(s) ==
    IF s.tier # "lead" THEN FALSE
    ELSE /\ s.quizCount >= TIER_LIMITS.lead.totalQuestions
         /\ s.flashcardCount >= TIER_LIMITS.lead.totalFlashcards

NeedsSignup(s) ==
    IF s.tier # "lead" THEN FALSE
    ELSE \/ s.quizCount >= TIER_LIMITS.lead.totalQuestions
         \/ s.flashcardCount >= TIER_LIMITS.lead.totalFlashcards

\* variant: the new-day test is missing, stale counts still ask for a subscription
NeedsSubscription_NoDateCheck(s, today) ==
    IF s.tier # "free" THEN FALSE
    ELSE \/ s.quizCount >= TIER_LIMITS.free.questionsPerDay
         \/ s.flashcardCount >= TIER_LIMITS.free.flashcardsPerDay

\* variant: the tier test is missing, every record is treated as a free one
NeedsSubscription_NoTierCheck(s, today) ==
    IF s.lastResetDate # today THEN FALSE
    ELSE \/ s.quizCount >= TIER_LIMITS.free.questionsPerDay
         \/ s.flashcardCount >= TIER_LIMITS.free.flashcardsPerDay

NeedsSubscription(s, today) ==
    IF s.tier # "free" THEN FALSE
    ELSE IF s.lastResetDate # today THEN FALSE
    ELSE \/ s.quizCount >= TIER_LIMITS.free.questionsPerDay
         \/ s.flashcardCount >= TIER_LIMITS.free.flashcardsPerDay

\* the "sessions remaining today" figure FlashcardsContainer computes itself
FlashcardsContainer_remainingFlashcards(s) ==
    IF s.tier = "premium" THEN Infinity
    ELSE Finite(MathMax(0, FREE_TIER_LIMITS.flashcardSessionsPerDay - s.flashcardCount))

useCanStartQuiz == CanStartQuiz(store, getTodayString)
useCanStartFlashcards == CanStartFlashcards(store, getTodayString)
useRemainingQuizzes == RemainingQuizzes(store, getTodayString)
useRemainingFlashcards == RemainingFlashcards(store, getTodayString)
useNeedsSignup == NeedsSignup(store)
useNeedsSubscription == NeedsSubscription(store, getTodayString)

----------------------------------------------------------------------------
(* Store actions: the record each one writes with set() *)

\* variant: login always sets the tier to free
LoginState_AlwaysFree(s, e, today) ==
    [s EXCEPT !.isAuthenticated = TRUE,
              !.email = e,
              !.tier = "free",
              !.quizCount = 0,
              !.flashcardCount = 0,
              !.lastResetDate = today]

LoginState(s, e, today) ==
    [s EXCEPT !.isAuthenticated = TRUE,
              !.email = e,
              !.tier = IF s.tier = "premium" THEN "premium" ELSE "free",
              !.quizCount = 0,
              !.flashcardCount = 0,
              !.lastResetDate = today]

\* variant: signup promotes the tier but keeps the counts
SignupState_KeepCounts(s, e, u, today) ==
    [s EXCEPT !.isAuthenticated = TRUE,
              !.email = e,
              !.userId = u,
              !.tier = "free",
              !.lastResetDate = today]

SignupState(s, e, u, today) ==
    [s EXCEPT !.isAuthenticated = TRUE,
              !.email = e,
              !.userId = u,
              !.tier = "free",
              !.quizCount = 0,
              !.flashcardCount = 0,
              !.lastResetDate = today]

\* variant: the new-day reset is applied whatever the tier
IncrementQuizState_AnyTier(s, today) ==
    IF s.lastResetDate # today
    THEN [s EXCEPT !.quizCount = 1, !.flashcardCount = 0, !.lastResetDate = today]
    ELSE [s EXCEPT !.quizCount = s.quizCount + 1]

\* variant: the new-day reset leaves the other counter as it was
IncrementQuizState_KeepOther(s, today) ==
    IF s.tier = "free" /\ s.lastResetDate # today
    THEN [s EXCEPT !.quizCount = 1, !.lastResetDate = today]
    ELSE [s EXCEPT !.quizCount = s.quizCount + 1]

\* variant: the new-day reset does not record the day it was made on
IncrementQuizState_NoResetDate(s, today) ==
    IF s.tier = "free" /\ s.lastResetDate # today
    THEN [s EXCEPT !.quizCount = 1, !.flashcardCount = 0]
    ELSE [s EXCEPT !.quizCount = s.quizCount + 1]

IncrementQuizState(s, today) ==
    IF s.tier = "free" /\ s.lastResetDate # today
    THEN [s EXCEPT !.quizCount = 1, !.flashcardCount = 0, !.lastResetDate = today]
    ELSE [s EXCEPT !.quizCount = s.quizCount + 1]

\* variant: a free record is reset on every use, without comparing the dates
IncrementFlashcardState_NoDateCheck(s, today) ==
    IF s.tier = "free"
    THEN [s EXCEPT !.quizCount = 0, !.flashcardCount = 1, !.lastResetDate = today]
    ELSE [s EXCEPT !.flashcardCount = s.flashcardCount + 1]

IncrementFlashcardState(s, today) ==
    IF s.tier = "free" /\ s.lastResetDate # today
    THEN [s EXCEPT !.quizCount = 0, !.flashcardCount = 1, !.lastResetDate = today]
    ELSE [s EXCEPT !.flashcardCount = s.flashcardCount + 1]

captureLeadEmail ==
    \E e \in Emails :
        /\ store' = [store EXCEPT !.email = e, !.tier = "lead"]
        /\ last' = Op("captureLeadEmail", e, NULL, NULL)
        /\ pre' = store
        /\ calls' = NoCalls
        /\ uses' = UsesOf(store', uses)
        /\ served' = ServedOf(store', served)
        /\ UNCHANGED phase
        /\ UNCHANGED <<localStorage, clock>>

login ==
    \E e \in Emails, t \in Tokens :
        /\ localStorage' = [localStorage EXCEPT !.auth_token = t, !.user_email = e]
        /\ store' = LoginState(store, e, getTodayString)
        /\ last' = Op("login", e, NULL, t)
        /\ pre' = store
        /\ calls' = NoCalls
        /\ uses' = UsesOf(store', UsesZeroed(getTodayString))
        /\ served' = ServedOf(store', served)
        /\ UNCHANGED phase
        /\ UNCHANGED clock

signup ==
    \E e \in Emails, u \in UserIds, t \in Tokens :
        /\ localStorage' = [auth_token |-> t, user_email |-> e, user_id |-> u]
        /\ store' = SignupState(store, e, u, getTodayString)
        /\ last' = Op("signup", e, u, t)
        /\ pre' = store
        /\ calls' = NoCalls
        /\ uses' = UsesOf(store', UsesZeroed(getTodayString))
        /\ served' = ServedOf(store', served)
        /\ UNCHANGED phase
        /\ UNCHANGED clock

\* AuthModal on the study hub page: the backend has answered with a token,
\* the email and a user id; the modal writes the three keys and hands token
\* and email to handleAuthenticated, which calls login (a failed request or
\* a rejected password leaves everything as it is)
handleSubmit ==
    \E e \in Emails, u \in UserIds, t \in Tokens :
        /\ localStorage' = [auth_token |-> t, user_email |-> e, user_id |-> u]
        /\ store' = LoginState(store, e, getTodayString)
        /\ last' = Op("login", e, NULL, t)
        /\ pre' = store
        /\ calls' = NoCalls
        /\ uses' = UsesOf(store', UsesZeroed(getTodayString))
        /\ served' = ServedOf(store', served)
        /\ UNCHANGED phase
        /\ UNCHANGED clock

\* AuthModal on the page that keeps its own authentication flag: the three
\* keys are written and the store is not told
handleSubmitLocal ==
    \E e \in Emails, u \in UserIds, t \in Tokens :
        /\ localStorage' = [auth_token |-> t, user_email |-> e, user_id |-> u]
        /\ last' = Op("handleSubmitLocal", e, u, t)
        /\ pre' = store
        /\ UNCHANGED <<store, clock, calls, uses, phase, served>>

\* the page that keeps its own authentication flag: the three keys are
\* removed and the store is not told
handleLogout ==
    /\ localStorage' = [auth_token |-> NULL, user_email |-> NULL, user_id |-> NULL]
    /\ last' = Op("handleLogout", NULL, NULL, NULL)
    /\ pre' = store
    /\ UNCHANGED <<store, clock, calls, uses, phase, served>>

\* the admin dashboard, shown after the stored auth_token was verified:
\* auth_token alone is removed and the store is not told
adminHandleLogout ==
    /\ localStorage.auth_token # NULL
    /\ localStorage' = [localStorage EXCEPT !.auth_token = NULL]
    /\ last' = Op("adminHandleLogout", NULL, NULL, NULL)
    /\ pre' = store
    /\ UNCHANGED <<store, clock, calls, uses, phase, served>>

\* variant: logout clears the identity and the tier but keeps the usage fields
logout_KeepsUsage ==
    /\ localStorage' = [auth_token |-> NULL, user_email |-> NULL, user_id |-> NULL]
    /\ store' = [store EXCEPT !.isAuthenticated = FALSE,
                              !.email = NULL,
                              !.userId = NULL,
                              !.tier = "lead"]
    /\ last' = Op("logout", NULL, NULL, NULL)
    /\ pre' = store
    /\ calls' = NoCalls
    /\ uses' = UsesOf(store', UsesZeroed(NoDate))
    /\ served' = ServedOf(store', served)
    /\ UNCHANGED phase
    /\ UNCHANGED clock

logout ==
    /\ localStorage' = [auth_token |-> NULL, user_email |-> NULL, user_id |-> NULL]
    /\ store' = [isAuthenticated |-> FALSE,
                 email           |-> NULL,
                 userId          |-> NULL,
                 tier            |-> "lead",
                 quizCount       |-> 0,
                 flashcardCount  |-> 0,
                 lastResetDate   |-> NoDate]
    /\ last' = Op("logout", NULL, NULL, NULL)
    /\ pre' = store
    /\ calls' = NoCalls
    /\ uses' = UsesOf(store', UsesZeroed(NoDate))
    /\ served' = ServedOf(store', served)
    /\ UNCHANGED phase
    /\ UNCHANGED clock

\* variant: the upgrade also zeroes the counters
upgradeToPremium_ResetsCounts ==
    /\ store' = [store EXCEPT !.tier = "premium", !.quizCount = 0, !.flashcardCount = 0]
    /\ last' = Op("upgradeToPremium", NULL, NULL, NULL)
    /\ pre' = store
    /\ calls' = NoCalls
    /\ uses' = UsesOf(store', uses)
    /\ served' = ServedOf(store', served)
    /\ UNCHANGED phase
    /\ UNCHANGED <<localStorage, clock>>

upgradeToPremium ==
    /\ store' = [store EXCEPT !.tier = "premium"]
    /\ last' = Op("upgradeToPremium", NULL, NULL, NULL)
    /\ pre' = store
    /\ calls' = NoCalls
    /\ uses' = UsesOf(store', uses)
    /\ served' = ServedOf(store', served)
    /\ UNCHANGED phase
    /\ UNCHANGED <<localStorage, clock>>

incrementQuizCount ==
    /\ store.quizCount < MaxCount
    /\ store' = IncrementQuizState(store, getTodayString)
    /\ last' = Op("incrementQuizCount", NULL, NULL, NULL)
    /\ pre' = store
    /\ calls' = IF calls.fresh
                THEN [calls EXCEPT !.quiz = calls.quiz + 1,
                                   !.days = calls.days \cup {getTodayString}]
                ELSE calls
    /\ uses' = UsesOf(store', UsesAfterQuiz(uses, store, getTodayString))
    /\ served' = ServedOf(store', served)
    /\ UNCHANGED phase
    /\ UNCHANGED <<localStorage, clock>>

incrementFlashcardCount ==
    /\ store.flashcardCount < MaxCount
    /\ store' = IncrementFlashcardState(store, getTodayString)
    /\ last' = Op("incrementFlashcardCount", NULL, NULL, NULL)
    /\ pre' = store
    /\ calls' = IF calls.fresh
                THEN [calls EXCEPT !.flash = calls.flash + 1,
                                   !.days = calls.days \cup {getTodayString}]
                ELSE calls
    /\ uses' = UsesOf(store', UsesAfterFlashcard(uses, store, getTodayString))
    /\ served' = ServedOf(store', served)
    /\ UNCHANGED phase
    /\ UNCHANGED <<localStorage, clock>>

resetDailyLimits ==
    /\ store' = [store EXCEPT !.quizCount = 0,
                              !.flashcardCount = 0,
                              !.lastResetDate = getTodayString]
    /\ last' = Op("resetDailyLimits", NULL, NULL, NULL)
    /\ pre' = store
    /\ calls' = NoCalls
    /\ uses' = UsesOf(store', UsesZeroed(getTodayString))
    /\ served' = ServedOf(store', served)
    /\ UNCHANGED phase
    /\ UNCHANGED <<localStorage, clock>>

\* the environment: the wall clock shows another calendar day
ClockChange ==
    /\ \E d \in Days \ {clock} : clock' = d
    /\ last' = [op |-> "clock", email |-> NULL, userId |-> NULL, token |-> NULL,
                today |-> clock']
    /\ pre' = store
    /\ UNCHANGED <<store, localStorage, calls, uses, phase, served>>

\* the wall clock reaches a later calendar day
ClockAdvance ==
    /\ \E d \in Days : d > clock /\ clock' = d
    /\ last' = [op |-> "clock", email |-> NULL, userId |-> NULL, token |-> NULL,
                today |-> clock']
    /\ pre' = store
    /\ UNCHANGED <<store, localStorage, calls, uses, phase, served>>

\* a reload of the page: the persist middleware has saved the record at every
\* write, under the storage key 'captains-academy-user', and restores that
\* same record; the keys of localStorage outlive the reload and the study
\* view starts again at its first phase
rehydrate ==
    /\ phase' = "subject-select"
    /\ last' = Op("rehydrate", NULL, NULL, NULL)
    /\ pre' = store
    /\ UNCHANGED <<store, localStorage, clock, calls, uses, served>>

----------------------------------------------------------------------------
(* The study views: the handlers that gate and record a use *)

\* QuizContainer, subject selection: when no quiz can be started the upgrade
\* modal opens and the phase stays; otherwise the question count is asked for
handleContinueToCount ==
    /\ phase = "subject-select"
    /\ useCanStartQuiz
    /\ phase' = "count-select"
    /\ last' = Op("handleContinueToCount", NULL, NULL, NULL)
    /\ pre' = store
    /\ UNCHANGED <<store, localStorage, clock, calls, uses, served>>

\* QuizContainer, question count selection: a quiz of n questions starts and
\* the use is recorded (the bank holds n questions of the selected subjects;
\* with an empty selection the handler returns without starting)
handleStartQuiz ==
    \E n \in QUESTION_COUNTS :
        /\ phase = "count-select"
        /\ store.quizCount < MaxCount
        /\ phase' = "quiz"
        /\ store' = IncrementQuizState(store, getTodayString)
        /\ last' = Op("handleStartQuiz", NULL, NULL, NULL)
        /\ pre' = store
        /\ calls' = IF calls.fresh
                    THEN [calls EXCEPT !.quiz = calls.quiz + 1,
                                       !.days = calls.days \cup {getTodayString}]
                    ELSE calls
        /\ uses' = UsesOf(store', UsesAfterQuiz(uses, store, getTodayString))
        /\ served' = ServedOf(store', ServedAfter(served, getTodayString, n))
        /\ UNCHANGED <<localStorage, clock>>

\* QuizContainer: "Change Subjects", "Exit Quiz" and the end of a quiz lead
\* back to the subject selection
backToSubjectSelect ==
    /\ phase \in {"count-select", "quiz"}
    /\ phase' = "subject-select"
    /\ last' = Op("backToSubjectSelect", NULL, NULL, NULL)
    /\ pre' = store
    /\ UNCHANGED <<store, localStorage, clock, calls, uses, served>>

\* FlashcardsContainer, subject selection: when no session can be started the
\* upgrade modal opens; otherwise the session starts and the use is recorded
\* (the view takes the place of QuizContainer, which is at its first phase)
handleContinueToStudy ==
    /\ phase = "subject-select"
    /\ useCanStartFlashcards
    /\ store.flashcardCount < MaxCount
    /\ store' = IncrementFlashcardState(store, getTodayString)
    /\ last' = Op("handleContinueToStudy", NULL, NULL, NULL)
    /\ pre' = store
    /\ calls' = IF calls.fresh
                THEN [calls EXCEPT !.flash = calls.flash + 1,
                                   !.days = calls.days \cup {getTodayString}]
                ELSE calls
    /\ uses' = UsesOf(store', UsesAfterFlashcard(uses, store, getTodayString))
    /\ served' = ServedOf(store', served)
    /\ UNCHANGED <<localStorage, clock, phase>>

NextUI ==
    \/ handleContinueToCount
    \/ handleStartQuiz
    \/ backToSubjectSelect
    \/ handleContinueToStudy
    \/ captureLeadEmail
    \/ login
    \/ signup
    \/ logout
    \/ upgradeToPremium
    \/ rehydrate
    \/ ClockAdvance

\* the store driven through the gated study views, with a clock that does
\* not go back
SpecUI == Init /\ [][NextUI]_vars

Next ==
    \/ captureLeadEmail
    \/ login
    \/ signup
    \/ logout
    \/ upgradeToPremium
    \/ incrementQuizCount
    \/ incrementFlashcardCount
    \/ resetDailyLimits
    \/ ClockChange

Spec == Init /\ [][Next]_vars

\* the store together with the pages that write the keys auth_token,
\* user_email and user_id around it: the sign-in modal and the two page-level
\* logout buttons
NextPages ==
    \/ Next
    \/ handleSubmit
    \/ handleSubmitLocal
    \/ handleLogout
    \/ adminHandleLogout
    \/ rehydrate

SpecPages == Init /\ [][NextPages]_vars

TypeOK ==
    /\ store.isAuthenticated \in BOOLEAN
    /\ store.email \in Emails \cup {NULL}
    /\ store.userId \in UserIds \cup {NULL}
    /\ store.tier \in UserTier
    /\ store.quizCount \in 0..MaxCount
    /\ store.flashcardCount \in 0..MaxCount
    /\ store.lastResetDate \in Days \cup {NoDate}
    /\ clock \in Days

----------------------------------------------------------------------------
(* Properties *)

\* C1: a premium record may always start a quiz and a flashcard session, on
\* every date and whatever the counts are (also after uses recorded while
\* premium).
C1_PremiumAlwaysPermitted ==
    store.tier = "premium" =>
        \A d \in Days : CanStartQuiz(store, d) /\ CanStartFlashcards(store, d)

C1_Witness ==
    /\ store.tier = "premium"
    /\ pre.tier = "premium"
    /\ last.op = "incrementQuizCount"
    /\ store.quizCount > TIER_LIMITS.free.questionsPerDay
    /\ store.flashcardCount >= TIER_LIMITS.free.flashcardsPerDay
    /\ store.lastResetDate = clock
    /\ useCanStartQuiz /\ useCanStartFlashcards

\* C2: on the freshly created lead record, n quiz uses and m flashcard uses,
\* on equal or different dates, leave quizCount = n and flashcardCount = m
\* with tier and lastResetDate as created; once a counter has reached 10 the
\* corresponding session cannot be started on any date.
C2_LeadLifetimeAccumulation ==
    calls.fresh =>
        /\ store.quizCount = calls.quiz
        /\ store.flashcardCount = calls.flash
        /\ store.tier = "lead"
        /\ store.lastResetDate = NoDate
        /\ calls.quiz >= 10 => \A d \in Days : ~CanStartQuiz(store, d)
        /\ calls.flash >= 10 => \A d \in Days : ~CanStartFlashcards(store, d)

C2_Witness ==
    /\ calls.fresh
    /\ calls.quiz = 10
    /\ Cardinality(calls.days) >= 2
    /\ last.op = "clock"
    /\ store.quizCount = 10
    /\ ~useCanStartQuiz

\* C3: while the record stays a lead, no step of any store action lowers
\* quizCount or flashcardCount (stated for the lifetime of the record: a
\* logout, which replaces the record by the default one, is left aside).
C3_LeadCountsNeverDecrease ==
    (pre.tier = "lead" /\ store.tier = "lead" /\ last.op # "logout") =>
        /\ store.quizCount >= pre.quizCount
        /\ store.flashcardCount >= pre.flashcardCount

\* C4: the first use of a new day by a free record sets the used counter to 1,
\* the other counter to 0 and lastResetDate to the day of the use; both
\* sessions can be started right afterwards.
C4_FreeDailyRollover ==
    /\ (last.op = "incrementQuizCount" /\ pre.tier = "free"
            /\ pre.lastResetDate # last.today) =>
        /\ store.quizCount = 1
        /\ store.flashcardCount = 0
        /\ store.lastResetDate = last.today
        /\ CanStartQuiz(store, last.today)
        /\ CanStartFlashcards(store, last.today)
    /\ (last.op = "incrementFlashcardCount" /\ pre.tier = "free"
            /\ pre.lastResetDate # last.today) =>
        /\ store.flashcardCount = 1
        /\ store.quizCount = 0
        /\ store.lastResetDate = last.today
        /\ CanStartQuiz(store, last.today)
        /\ CanStartFlashcards(store, last.today)

C4_Witness ==
    /\ last.op = "incrementFlashcardCount"
    /\ pre.tier = "free"
    /\ pre.lastResetDate # last.today
    /\ pre.quizCount = 10
    /\ pre.flashcardCount = 3
    /\ store.quizCount = 0
    /\ store.flashcardCount = 1

\* C5: a use by a free record on the day of its lastResetDate adds 1 to the
\* used counter and changes no other field of the record.
C5_FreeSameDayFrame ==
    /\ (last.op = "incrementQuizCount" /\ pre.tier = "free"
            /\ pre.lastResetDate = last.today) =>
        store = [pre EXCEPT !.quizCount = pre.quizCount + 1]
    /\ (last.op = "incrementFlashcardCount" /\ pre.tier = "free"
            /\ pre.lastResetDate = last.today) =>
        store = [pre EXCEPT !.flashcardCount = pre.flashcardCount + 1]

C5_Witness ==
    /\ last.op = "incrementFlashcardCount"
    /\ pre.tier = "free"
    /\ pre.lastResetDate = last.today
    /\ pre.flashcardCount = 4
    /\ pre.quizCount = 2
    /\ store.flashcardCount = 5

\* C6: canStartQuiz is true for premium, quizCount < 10 for a lead, and for a
\* free record true on a date other than lastResetDate and quizCount < 10 on
\* lastResetDate; canStartFlashcards is the same with flashcardCount.
C6_CanStartDefinition ==
    \A d \in Days :
        /\ CanStartQuiz(store, d) <=>
            \/ store.tier = "premium"
            \/ store.tier = "lead" /\ store.quizCount < 10
            \/ store.tier = "free" /\ (store.lastResetDate # d \/ store.quizCount < 10)
        /\ CanStartFlashcards(store, d) <=>
            \/ store.tier = "premium"
            \/ store.tier = "lead" /\ store.flashcardCount < 10
            \/ store.tier = "free"
                /\ (store.lastResetDate # d \/ store.flashcardCount < 10)

C6_Witness ==
    /\ store.tier = "free"
    /\ store.lastResetDate = clock
    /\ store.quizCount = 9
    /\ store.flashcardCount = 10
    /\ useCanStartQuiz
    /\ ~useCanStartFlashcards
    /\ \E d \in Days : CanStartFlashcards(store, d)

\* C7: the remaining count is the unlimited sentinel for premium,
\* max(0, 10 - count) for a lead, and for a free record 10 on a date other
\* than lastResetDate and max(0, 10 - count) on lastResetDate; a finite
\* result lies in 0..10.
C7_RemainingDefinition ==
    \A d \in Days :
        /\ RemainingQuizzes(store, d) =
            IF store.tier = "premium" THEN Infinity
            ELSE IF store.tier = "free" /\ store.lastResetDate # d THEN Finite(10)
            ELSE IF store.quizCount >= 10 THEN Finite(0)
            ELSE Finite(10 - store.quizCount)
        /\ RemainingFlashcards(store, d) =
            IF store.tier = "premium" THEN Infinity
            ELSE IF store.tier = "free" /\ store.lastResetDate # d THEN Finite(10)
            ELSE IF store.flashcardCount >= 10 THEN Finite(0)
            ELSE Finite(10 - store.flashcardCount)
        /\ ~RemainingQuizzes(store, d).unlimited =>
                RemainingQuizzes(store, d).n \in 0..10
        /\ ~RemainingFlashcards(store, d).unlimited =>
                RemainingFlashcards(store, d).n \in 0..10

C7_Witness ==
    /\ store.tier = "lead"
    /\ store.quizCount > 10
    /\ store.flashcardCount = 4
    /\ useRemainingQuizzes = Finite(0)
    /\ useRemainingFlashcards = Finite(6)

\* C8: signup on a lead record gives an authenticated free record with both
\* counts 0, lastResetDate the day of the signup and the given email and
\* user id; both sessions can be started right afterwards.
C8_SignupResetsAndPromotes ==
    (last.op = "signup" /\ pre.tier = "lead") =>
        /\ store.tier = "free"
        /\ store.isAuthenticated
        /\ store.quizCount = 0
        /\ store.flashcardCount = 0
        /\ store.lastResetDate = last.today
        /\ store.email = last.email
        /\ store.userId = last.userId
        /\ CanStartQuiz(store, last.today)
        /\ CanStartFlashcards(store, last.today)

C8_Witness ==
    /\ last.op = "signup"
    /\ pre.tier = "lead"
    /\ pre.quizCount = 10
    /\ ~CanStartQuiz(pre, last.today)
    /\ store.tier = "free"
    /\ store.quizCount = 0
    /\ useCanStartQuiz

\* C9: login keeps a premium record premium and makes every other record
\* free; it always authenticates, stores the email, zeroes both counts and
\* sets lastResetDate to the day of the login.
C9_LoginResult ==
    last.op = "login" =>
        /\ store.tier = (IF pre.tier = "premium" THEN "premium" ELSE "free")
        /\ store.isAuthenticated
        /\ store.email = last.email
        /\ store.quizCount = 0
        /\ store.flashcardCount = 0
        /\ store.lastResetDate = last.today

C9_Witness ==
    /\ last.op = "login"
    /\ pre.tier = "premium"
    /\ pre.quizCount > 0
    /\ pre.email # last.email
    /\ store.tier = "premium"
    /\ store.quizCount = 0

\* C10: with the order lead < free < premium, no login and no signup ends in
\* a tier lower than the one it started from.
C10_AuthNeverDowngrades ==
    last.op \in {"login", "signup"} =>
        /\ pre.tier = "premium" => store.tier = "premium"
        /\ pre.tier = "free" => store.tier \in {"free", "premium"}
\* C11: logout, in whatever state it is invoked, leaves exactly the default
\* record the store is created with.
C11_LogoutRestoresDefaults ==
    last.op = "logout" =>
        /\ store = InitialState
        /\ store.tier = "lead"
        /\ ~store.isAuthenticated
        /\ store.email = NULL /\ store.userId = NULL
        /\ store.quizCount = 0 /\ store.flashcardCount = 0
        /\ store.lastResetDate = NoDate

C11_Witness ==
    /\ last.op = "logout"
    /\ pre.tier = "premium"
    /\ pre.isAuthenticated
    /\ pre.email # NULL /\ pre.userId # NULL
    /\ pre.quizCount > 0 /\ pre.flashcardCount > 0
    /\ pre.lastResetDate # NoDate
    /\ store = InitialState

\* C12: the upgrade of a free record sets the tier to premium and changes no
\* other field of the record.
C12_UpgradeFrame ==
    (last.op = "upgradeToPremium" /\ pre.tier = "free") =>
        /\ store.tier = "premium"
        /\ store = [pre EXCEPT !.tier = "premium"]

C12_Witness ==
    /\ last.op = "upgradeToPremium"
    /\ pre.tier = "free"
    /\ pre.quizCount = 10
    /\ pre.flashcardCount = 3
    /\ store.tier = "premium"
    /\ store.quizCount = 10
    /\ store.flashcardCount = 3

\* C13: capturing an email changes only the stored email, in whatever state
\* it is invoked: the tier and every other field are as before.
C13_CaptureChangesOnlyEmail ==
    last.op = "captureLeadEmail" =>
        /\ store.tier = pre.tier
        /\ store = [pre EXCEPT !.email = last.email]

\* C14: needsSignup is true exactly for a lead record with quizCount >= 10
\* or flashcardCount >= 10, and false for every free and premium record.
C14_NeedsSignupDefinition ==
    /\ NeedsSignup(store) <=>
        (store.tier = "lead" /\ (store.quizCount >= 10 \/ store.flashcardCount >= 10))
    /\ store.tier \in {"free", "premium"} => ~NeedsSignup(store)

C14_Witness ==
    /\ store.tier = "lead"
    /\ store.quizCount = 10
    /\ store.flashcardCount < 10
    /\ useNeedsSignup
    /\ pre.quizCount = 9
    /\ ~NeedsSignup(pre)

\* C15: needsSubscription is true exactly for a free record whose
\* lastResetDate is today and with quizCount >= 10 or flashcardCount >= 10;
\* it is false for a stale free record and for every lead and premium record.
C15_NeedsSubscriptionDefinition ==
    \A d \in Days :
        /\ NeedsSubscription(store, d) <=>
            /\ store.tier = "free"
            /\ store.lastResetDate = d
            /\ (store.quizCount >= 10 \/ store.flashcardCount >= 10)
        /\ (store.tier = "free" /\ store.lastResetDate # d) =>
                ~NeedsSubscription(store, d)
        /\ store.tier \in {"lead", "premium"} => ~NeedsSubscription(store, d)

C15_Witness ==
    /\ store.tier = "free"
    /\ store.flashcardCount = 10
    /\ store.quizCount < 10
    /\ store.lastResetDate # clock
    /\ ~useNeedsSubscription
    /\ NeedsSubscription(store, store.lastResetDate)

\* C16: needsSignup and needsSubscription are never both true; a lead at its
\* limit needs a signup and no subscription, a free record at its daily limit
\* on the current date needs a subscription and no signup.
C16_PromptsMutuallyExclusive ==
    /\ \A d \in Days : ~(NeedsSignup(store) /\ NeedsSubscription(store, d))
    /\ (store.tier = "lead"
            /\ (store.quizCount >= 10 \/ store.flashcardCount >= 10)) =>
        /\ NeedsSignup(store)
        /\ \A d \in Days : ~NeedsSubscription(store, d)
    /\ (store.tier = "free" /\ store.lastResetDate = clock
            /\ (store.quizCount >= 10 \/ store.flashcardCount >= 10)) =>
        /\ NeedsSubscription(store, clock)
        /\ ~NeedsSignup(store)

C16_Witness ==
    /\ store.tier = "lead"
    /\ store.lastResetDate = clock
    /\ store.quizCount >= 10
    /\ useNeedsSignup
    /\ ~useNeedsSubscription

\* C17: the email is absent only on a lead record: every free and every
\* premium record has a stored email.
C17_IdentityAbsentOnlyForLead ==
    store.tier \in {"free", "premium"} => store.email # NULL

\* C18: for a free record whose lastResetDate is not today every selector
\* answers as on the same record with both counts 0 (sessions can start, 10
\* remain, no subscription needed), and a change of date alone leaves the
\* stored record as it was.
C18_StaleCountsReadAsZero ==
    /\ \A d \in Days :
        (store.tier = "free" /\ store.lastResetDate # d) =>
            /\ CanStartQuiz(store, d) /\ CanStartFlashcards(store, d)
            /\ RemainingQuizzes(store, d) = Finite(10)
            /\ RemainingFlashcards(store, d) = Finite(10)
            /\ ~NeedsSubscription(store, d)
            /\ CanStartQuiz(store, d) =
                CanStartQuiz([store EXCEPT !.quizCount = 0, !.flashcardCount = 0], d)
            /\ CanStartFlashcards(store, d) =
                CanStartFlashcards([store EXCEPT !.quizCount = 0, !.flashcardCount = 0], d)
            /\ RemainingQuizzes(store, d) =
                RemainingQuizzes([store EXCEPT !.quizCount = 0, !.flashcardCount = 0], d)
            /\ RemainingFlashcards(store, d) =
                RemainingFlashcards([store EXCEPT !.quizCount = 0, !.flashcardCount = 0], d)
            /\ NeedsSubscription(store, d) =
                NeedsSubscription([store EXCEPT !.quizCount = 0, !.flashcardCount = 0], d)
    /\ last.op = "clock" => store = pre

C18_Witness ==
    /\ last.op = "clock"
    /\ store.tier = "free"
    /\ store.lastResetDate # clock
    /\ store.quizCount = 10
    /\ store.flashcardCount = 10
    /\ ~CanStartQuiz(store, store.lastResetDate)
    /\ useCanStartQuiz
    /\ useRemainingFlashcards = Finite(10)

\* C19: on a free record quizCount and flashcardCount are the numbers of
\* quiz and flashcard uses made on the day lastResetDate since the counters
\* were last zeroed (by login, signup, resetDailyLimits or the first use of a
\* new day); a record becomes free only by a login or a signup, which zero
\* the counters, so no use made before the record was free is counted.
C19_FreeCountsAreUsesSinceReset ==
    /\ store.tier = "free" =>
        /\ store.lastResetDate = uses.day
        /\ store.quizCount = uses.quiz
        /\ store.flashcardCount = uses.flash
    /\ (store.tier = "free" /\ pre.tier # "free") =>
        /\ last.op \in {"login", "signup"}
        /\ uses = UsesZeroed(last.today)

C19_Witness ==
    /\ store.tier = "free"
    /\ pre.tier = "free"
    /\ last.op = "incrementFlashcardCount"
    /\ pre.lastResetDate # last.today
    /\ pre.quizCount = 3
    /\ pre.flashcardCount = 2
    /\ uses = [day |-> clock, quiz |-> 0, flash |-> 1]
    /\ store.flashcardCount = 1

\* C20: a step that keeps the record free and lowers quizCount or
\* flashcardCount happens on a date other than the lastResetDate it started
\* from (free counters are zeroed only by the daily reset).
C20_FreeZeroedOnlyByDailyReset ==
    (pre.tier = "free" /\ store.tier = "free"
        /\ (store.quizCount < pre.quizCount
            \/ store.flashcardCount < pre.flashcardCount)) =>
        last.today # pre.lastResetDate
\* C23: a lead with either counter at 10 (needsSignup true) can start
\* neither a quiz nor a flashcard session, on any date.
C23_LeadAtLimitFullyBlocked ==
    (store.tier = "lead" /\ NeedsSignup(store)) =>
        \A d \in Days : ~CanStartQuiz(store, d) /\ ~CanStartFlashcards(store, d)

\* C25: isAuthenticated is true exactly when the tier is free or premium.
C25_AuthenticatedIffNotLead ==
    store.isAuthenticated <=> store.tier \in {"free", "premium"}

\* C24: the quiz questions served on one calendar date to a record that
\* stays free, through gated quiz starts, are at most 10.
C24_FreeQuestionsPerDay ==
    store.tier = "free" => served.n <= 10

\* C26: when every use is recorded through the gated views, a lead record
\* has quizCount <= 10 and flashcardCount <= 10.
C26_GatedLeadWithinLimit ==
    store.tier = "lead" => (store.quizCount <= 10 /\ store.flashcardCount <= 10)

\* C27: when every use is recorded through the gated views and the date
\* never goes back, a free record has quizCount <= 10, flashcardCount <= 10
\* and a lastResetDate.
C27_GatedFreeWithinLimit ==
    store.tier = "free" =>
        /\ store.quizCount <= 10
        /\ store.flashcardCount <= 10
        /\ store.lastResetDate # NoDate

C27_Witness ==
    /\ store.tier = "free"
    /\ pre.tier = "free"
    /\ last.op = "handleStartQuiz"
    /\ pre.quizCount = 9
    /\ store.quizCount = 10
    /\ store.flashcardCount = 10
    /\ store.lastResetDate = clock
    /\ ~useCanStartQuiz /\ ~useCanStartFlashcards

\* C28: a prompt (needsSignup or needsSubscription) is due exactly when the
\* record is not premium and a quiz or a flashcard session cannot be started;
\* a blocked record is shown exactly one prompt, an unblocked record none.
C28_PromptsMatchEligibility ==
    \A d \in Days :
        /\ (NeedsSignup(store) \/ NeedsSubscription(store, d)) <=>
            /\ store.tier # "premium"
            /\ (~CanStartQuiz(store, d) \/ ~CanStartFlashcards(store, d))
        /\ (CanStartQuiz(store, d) /\ CanStartFlashcards(store, d)) =>
            (~NeedsSignup(store) /\ ~NeedsSubscription(store, d))
        /\ (store.tier # "premium"
                /\ (~CanStartQuiz(store, d) \/ ~CanStartFlashcards(store, d))) =>
            (NeedsSignup(store) # NeedsSubscription(store, d))

C28_Witness ==
    /\ store.tier = "lead"
    /\ store.quizCount = 10
    /\ store.flashcardCount = 0
    /\ ~useCanStartQuiz
    /\ useCanStartFlashcards
    /\ useNeedsSignup
    /\ ~useNeedsSubscription

\* C29: a quiz can be started exactly when the remaining quiz count is
\* unlimited or greater than 0, and the same for flashcard sessions.
C29_EligibilityMatchesRemaining ==
    \A d \in Days :
        /\ CanStartQuiz(store, d) <=>
            (RemainingQuizzes(store, d).unlimited \/ RemainingQuizzes(store, d).n > 0)
        /\ CanStartFlashcards(store, d) <=>
            (RemainingFlashcards(store, d).unlimited
                \/ RemainingFlashcards(store, d).n > 0)

C29_Witness ==
    /\ store.tier = "free"
    /\ store.quizCount = 10
    /\ store.lastResetDate # clock
    /\ useCanStartQuiz
    /\ useRemainingQuizzes = Finite(10)
    /\ ~CanStartQuiz(store, store.lastResetDate)
    /\ RemainingQuizzes(store, store.lastResetDate) = Finite(0)

\* C30: the remaining-sessions figure FlashcardsContainer displays equals the
\* store's remainingFlashcards for every date.
C30_DisplayedRemainingMatchesStore ==
    \A d \in Days :
        FlashcardsContainer_remainingFlashcards(store) = RemainingFlashcards(store, d)

====
